---------------------------- MODULE Spec2Model ----------------------------
(***************************************************************************)
(* A model of xgendoc.py, the script that generates the HTML documentation *)
(* of gofem: a command runner (Cmd), four template builders and a linear   *)
(* main flow that issues shell commands.                                   *)
(*                                                                         *)
(* Text is a sequence of tokens.  A token is a run of characters that      *)
(* neither the shell nor sed treats specially, except for the tokens DQ    *)
(* (a double quote), EQ (an escaped double quote: a backslash and a double *)
(* quote), NL (a newline) and the two halves SRC, TGT of the link          *)
(* placeholder /src/target.  The templates are the values of the Python    *)
(* string literals of the source, where \\" denotes the two characters of  *)
(* EQ.                                                                     *)
(***************************************************************************)
EXTENDS Integers, Sequences, FiniteSets, TLC

\* ------------------------------------------------------------------ bounds
\* longest package list of the input-driven runs (a prefix of AllPkgs)
MaxPkgs == 2
\* total number of tokens of the environment's texts in one run
\* (the license text plus the output of every run of the documentation tool)
MaxInput == 3
\* longest output of the documentation tool in the runs over one package
MaxToolInput == 4
\* total number of input tokens in the runs over the whole package list
MaxFullInput == 1
\* number of external commands that may fail in one run
MaxFail == 2

\* ------------------------------------------------------------------ tokens
DQ  == "\""
EQ  == "\\\""
NL  == "\n"
SRC == "/src"
TGT == "/target"
\* the placeholder of the sed script, s@/src/target@...@g
Placeholder == <<SRC, TGT>>
UrlBase == "https://github.com/cpmech/gofem/blob/master/"

\* characters a license text is made of: plain text, a double quote, and the
\* halves of the placeholder.  ($, ` and \ are left out: what the shell makes of
\* them depends on its environment and on the echo builtin of /bin/sh.)
LicChars  == {"x", DQ, SRC, TGT}
\* characters of the documentation tool's output
ToolChars == {"x", SRC, TGT}

Texts(chars, n) == UNION {[1..m -> chars] : m \in 0..n}

\* ------------------------------------------------------------- module data
AllPkgs ==
    << <<"ana",      "analytical solutions for comparisons">>,
       <<"shp",      "shape structures and quadrature points">>,
       <<"inp",      "input data structures. simulation, materials, meshes">>,
       <<"msolid",   "models for solids">>,
       <<"mconduct", "models for liquid/gas conductivity in porous media">>,
       <<"mreten",   "models for liquid retention in porous media">>,
       <<"mporous",  "models for porous media">>,
       <<"fem",      "finite element method">>,
       <<"out",      "results analyses and plotting">> >>

odir  == "doc/"
idxfn == <<odir, "index.html">>
\* fn = odir+'xx'+pkg[0]+'.html'
fn(pkg) == <<odir, "xx", pkg[1], ".html">>

FileNames == {idxfn} \cup {fn(AllPkgs[i]) : i \in 1..Len(AllPkgs)}

VARIABLES
    pkgs,      \* the package list the loop runs over
    licen,     \* the license text read at startup
    verbose,   \* the flags the calls of Cmd pass
    debug,
    files,     \* the file system: file name -> [exists, data]
    shadow,    \* the same commands run on an output directory that starts empty
    pc,        \* the line of the main flow whose Cmd call is next or in progress
    k,         \* index in pkgs of the package of the current loop iteration
    phase,     \* "call": before Popen;  "read": blocked in read()
    alive,     \* the subprocesses started and not yet terminated
    streams,   \* terminated subprocess -> what it left in its stdout and stderr pipes
    ret,       \* what the last call of Cmd returned
    console,   \* what the script has printed
    log,       \* the Cmd calls issued so far, <<line, k>>
    access,    \* the file accesses of the commands that have run
    toolout,   \* k -> the standard output the documentation tool gave for pkgs[k]
    before,    \* k -> contents of the package file when sed started on it
    budget,    \* input tokens the environment may still produce
    faults,    \* failures the environment may still cause
    failed     \* the commands the environment made fail

vars == <<pkgs, licen, verbose, debug, files, shadow, pc, k, phase, alive,
          streams, ret, console, log, access, toolout, before, budget, faults, failed>>

\* ------------------------------------------------------- template builders
header(title) ==
    <<"<html>\n<head>\n<meta http-equiv=", EQ, "Content-Type", EQ,
      " content=", EQ, "text/html; charset=utf-8", EQ,
      ">\n<title>">> \o title \o
    <<"</title>\n<link type=", EQ, "text/css", EQ,
      " rel=", EQ, "stylesheet", EQ,
      " href=", EQ, "static/style.css", EQ,
      ">\n<script type=", EQ, "text/javascript", EQ,
      " src=", EQ, "static/godocs.js", EQ,
      "></script>\n<style type=", EQ, "text/css", EQ,
      "></style>\n</head>\n<body>\n<div id=", EQ, "page", EQ, ">">>

footer ==
    <<"</div><!-- page -->\n<div id=", EQ, "footer", EQ,
      ">\n<br /><br />\n<hr>\n<pre class=", EQ, "copyright", EQ, ">\n">>
    \o licen \o
    <<"</pre><!-- copyright -->\n</div><!-- footer -->\n</body>\n</html>">>

pkgheader(pkg) ==
    header(<<"Gofem &ndash; package ", pkg[1]>>)
    \o <<"<h1>Gofem &ndash; <b>", pkg[1], "</b> &ndash; ", pkg[2], "</h1>">>

pkgitem_swapped(pkg) ==
    <<"<dd><a href=", EQ, "xx", pkg[1], ".html", EQ, "><b>",
      pkg[2], "</b>: ", pkg[1], "</a></dd>">>

pkgitem(pkg) ==
    <<"<dd><a href=", EQ, "xx", pkg[1], ".html", EQ, "><b>",
      pkg[1], "</b>: ", pkg[2], "</a></dd>">>

\* --------------------------------------------------- the commands, by line
\* A command line is kept in its parts: the program, the text between the
\* double quotes of echo's argument (or the program's own arguments), the
\* redirection and the file it names.
Echo(text, redir, file) ==
    [prog |-> "echo", arg |-> text, redir |-> redir, file |-> file]

CmdL67 == Echo(header(<<"Gofem &ndash; Documentation">>), ">", idxfn)

CmdL68 == Echo(<<"<h1>Gofem &ndash; Documentation</h1>">>, ">>", idxfn)

CmdL69 ==
    Echo(<<"<h2 id=", EQ, "pkg-index", EQ, ">Index</h2>\n<div id=",
           EQ, "manual-nav", EQ, ">\n<dl>">>, ">>", idxfn)

CmdL73_append(pkg) == Echo(pkgheader(pkg), ">>", fn(pkg))

CmdL73(pkg) == Echo(pkgheader(pkg), ">", fn(pkg))

CmdL74(pkg) ==
    [prog |-> "godoc", arg |-> <<"-html", "github.com/cpmech/gofem/", pkg[1]>>,
     redir |-> ">>", file |-> fn(pkg)]

CmdL75(pkg) == Echo(footer, ">>", fn(pkg))

CmdL76(pkg) == Echo(pkgitem(pkg), ">>", idxfn)

CmdL79_index(pkg) ==
    [prog |-> "sed", arg |-> <<UrlBase, pkg[1]>>, redir |-> "-i", file |-> idxfn]

CmdL79(pkg) ==
    [prog |-> "sed", arg |-> <<UrlBase, pkg[1]>>, redir |-> "-i", file |-> fn(pkg)]

CmdL81 == Echo(<<"</dl>\n</div><!-- manual-nav -->">>, ">>", idxfn)

CmdL82 == Echo(footer, ">>", idxfn)

\* the command the Cmd call of line `line` builds in iteration `i`
Command(line, i) ==
    CASE line = "L67" -> CmdL67
      [] line = "L68" -> CmdL68
      [] line = "L69" -> CmdL69
      [] line = "L73" -> CmdL73(pkgs[i])
      [] line = "L74" -> CmdL74(pkgs[i])
      [] line = "L75" -> CmdL75(pkgs[i])
      [] line = "L76" -> CmdL76(pkgs[i])
      [] line = "L79" -> CmdL79(pkgs[i])
      [] line = "L81" -> CmdL81
      [] line = "L82" -> CmdL82

\* ---------------------------------------------------------------- the shell
\* What /bin/sh makes of `echo "text"`, for a text of the tokens above.  A
\* double quote of the text closes the string the command line opened, or
\* opens one again: the quote characters are removed and the characters around
\* them stay one word.  An escaped quote is a quote character of the word,
\* inside a string and outside.  After the text the closing quote of the
\* command line follows: with an odd number of double quotes in the text it
\* opens a string that nothing closes, a syntax error, and the command line is
\* not executed.
Unquoted(tok) == IF tok = EQ THEN DQ ELSE tok
IsWordChar(tok) == tok /= DQ
EchoWord(text) ==
    [ok  |-> Cardinality({p \in 1..Len(text) : text[p] = DQ}) % 2 = 0,
     out |-> [p \in 1..Len(SelectSeq(text, IsWordChar)) |->
                 Unquoted(SelectSeq(text, IsWordChar)[p])]]

\* the leftmost position of t where the placeholder starts, 0 if there is none
FirstMatch(t) ==
    LET at == {p \in 1..(Len(t) - Len(Placeholder) + 1) :
                 SubSeq(t, p, p + Len(Placeholder) - 1) = Placeholder}
    IN  IF at = {} THEN 0 ELSE CHOOSE p \in at : \A q \in at : p <= q

\* sed 's@/src/target@url@g' on a text: the leftmost match is replaced, and
\* the search goes on after it
RECURSIVE SedSub(_, _)
SedFrom(t, url, p) ==
    IF p = 0 THEN t
    ELSE SubSeq(t, 1, p - 1) \o url
         \o SedSub(SubSeq(t, p + Len(Placeholder), Len(t)), url)
SedSub(t, url) == SedFrom(t, url, FirstMatch(t))

\* the same script without the g flag, on a text of one line
SedOnce(t, url, p) ==
    IF p = 0 THEN t
    ELSE SubSeq(t, 1, p - 1) \o url \o SubSeq(t, p + Len(Placeholder), Len(t))
SedFirst(t, url) == SedOnce(t, url, FirstMatch(t))

SedText(t, url) == SedSub(t, url)

Absent == [exists |-> FALSE, data |-> <<>>]

\* `> file` creates or truncates the file, `>> file` creates it or appends
Redirect(fs, file, redir, data) ==
    [fs EXCEPT ![file] =
        [exists |-> TRUE,
         data   |-> IF redir = ">" THEN data ELSE @.data \o data]]

\* whether the shell runs the command: the environment lets it (ok) and the
\* command line parses and names an existing file where it must
Runs(c, fs, ok) ==
    /\ ok
    /\ c.prog = "echo" => EchoWord(c.arg).ok
    /\ c.prog = "sed"  => fs[c.file].exists

\* the file system after `sh -c` of command c; tout is what the documentation
\* tool writes to its standard output
Sh(c, fs, ok, tout) ==
    IF ~Runs(c, fs, ok) THEN fs
    ELSE CASE c.prog = "echo"  ->
                Redirect(fs, c.file, c.redir, Append(EchoWord(c.arg).out, NL))
           [] c.prog = "godoc" -> Redirect(fs, c.file, c.redir, tout)
           [] c.prog = "sed"   ->
                [fs EXCEPT ![c.file].data = SedText(@, c.arg)]

\* what the subprocess leaves in its pipes: every command of the script sends
\* its standard output to a file, and a command that does not run complains
ShStreams(c, fs, ok) ==
    [out |-> <<>>,
     err |-> IF Runs(c, fs, ok) THEN <<>> ELSE <<"sh: ", c.prog, ": error", NL>>]

FileOp(c) ==
    CASE c.prog = "sed" -> "edit"
      [] c.redir = ">"  -> "overwrite"
      [] OTHER          -> "append"

\* str.strip(): leading and trailing whitespace removed
RECURSIVE Strip(_)
Strip(t) ==
    IF t = <<>> THEN t
    ELSE IF Head(t) = NL THEN Strip(Tail(t))
    ELSE IF t[Len(t)] = NL THEN Strip(SubSeq(t, 1, Len(t) - 1))
    ELSE t

\* ------------------------------------------------------------ the main flow
AfterLoopBody_skip(i) ==
    IF i < Len(pkgs) /\ failed = {} THEN <<"L73", i + 1>> ELSE <<"L81", 0>>

\* for pkg in pkgs: the next iteration, or the statement after the loop
AfterLoopBody(i) ==
    IF i < Len(pkgs) THEN <<"L73", i + 1>> ELSE <<"L81", 0>>

\* the line (and loop index) the flow is at once the Cmd call of `line` returned
NextLine(line, i) ==
    CASE line = "L67" -> <<"L68", 0>>
      [] line = "L68" -> <<"L69", 0>>
      [] line = "L69" -> AfterLoopBody(0)
      [] line = "L73" -> <<"L74", i>>
      [] line = "L74" -> <<"L75", i>>
      [] line = "L75" -> <<"L76", i>>
      [] line = "L76" -> <<"L79", i>>
      [] line = "L79" -> AfterLoopBody(i)
      [] line = "L81" -> <<"L82", 0>>
      [] line = "L82" -> <<"done", 0>>

Bar == "=================================================="

StreamsAtEOF_nowait(p) == TRUE

\* read() returns at the end of the stream: when the subprocess has closed its
\* end of the pipe, which it does by terminating
StreamsAtEOF(p) == p \notin alive

\* Cmd, lines 10-14: the debug branch, then Popen
Popen ==
    /\ phase = "call"
    /\ pc \notin {"done", "NameError"}
    /\ IF debug
       THEN \* line 11 prints; line 12 reads the name cmd, which nothing defines
            /\ console' = Append(console, Bar)
            /\ pc' = "NameError"
            /\ UNCHANGED <<phase, alive, log>>
       ELSE /\ alive' = alive \cup {<<pc, k>>}
            /\ log' = Append(log, <<pc, k>>)
            /\ phase' = "read"
            /\ UNCHANGED <<console, pc>>
    /\ UNCHANGED <<pkgs, licen, verbose, debug, files, shadow, k, streams, ret,
                   access, toolout, before, budget, faults, failed>>

\* the subprocess p runs its command and terminates
Child(p) ==
    /\ p \in alive
    /\ \E ok \in (IF faults > 0 THEN BOOLEAN ELSE {TRUE}),
          tout \in (IF p[1] = "L74" THEN Texts(ToolChars, budget) ELSE {<<>>}) :
         LET c == Command(p[1], p[2]) IN
         /\ ok \/ tout = <<>>
         /\ files'   = Sh(c, files, ok, tout)
         /\ shadow'  = Sh(c, shadow, ok, tout)
         /\ streams' = (p :> ShStreams(c, files, ok)) @@ streams
         /\ access'  = Append(access, [line |-> p[1], k |-> p[2],
                                       file |-> c.file, op |-> FileOp(c)])
         /\ toolout' = IF c.prog = "godoc" THEN (p[2] :> tout) @@ toolout
                       ELSE toolout
         /\ before'  = IF c.prog = "sed" /\ Runs(c, files, ok)
                       THEN (p[2] :> files[c.file].data) @@ before
                       ELSE before
         /\ budget'  = budget - Len(tout)
         /\ faults'  = IF ok THEN faults ELSE faults - 1
         /\ failed'  = IF ok THEN failed ELSE failed \cup {p}
    /\ alive' = alive \ {p}
    /\ UNCHANGED <<pkgs, licen, verbose, debug, pc, k, phase, ret, console, log>>

\* Cmd, lines 15-20: both streams are read to their end, printed if verbose,
\* and returned; the flow moves to the next statement
Return ==
    /\ phase = "read"
    /\ StreamsAtEOF(<<pc, k>>)
    /\ LET got == IF <<pc, k>> \in DOMAIN streams
                  THEN streams[<<pc, k>>] ELSE [out |-> <<>>, err |-> <<>>]
           out == got.out
           err == Strip(got.err)
       IN  /\ ret' = [out |-> out, err |-> err]
           /\ console' = IF verbose THEN console \o <<out, err>> ELSE console
    /\ streams' = [q \in DOMAIN streams \ {<<pc, k>>} |-> streams[q]]
    /\ pc' = NextLine(pc, k)[1]
    /\ k'  = NextLine(pc, k)[2]
    /\ phase' = "call"
    /\ UNCHANGED <<pkgs, licen, verbose, debug, files, shadow, alive, log,
                   access, toolout, before, budget, faults, failed>>

Next ==
    \/ Popen
    \/ \E p \in alive : Child(p)
    \/ Return

\* ------------------------------------------------------------- initial states
Prefixes == {SubSeq(AllPkgs, 1, n) : n \in 0..MaxPkgs}

\* runs told apart by their inputs: the license text and the tool's outputs;
\* the output directory holds earlier files, and no command fails
InputRuns ==
    {[pkgs |-> ps, licen |-> l, old |-> TRUE, budget |-> MaxInput - Len(l),
      faults |-> 0, verbose |-> FALSE, debug |-> FALSE] :
        ps \in Prefixes, l \in Texts(LicChars, MaxInput)}

\* runs over one package and an empty license, with longer tool outputs
ToolRuns ==
    {[pkgs |-> SubSeq(AllPkgs, n, n), licen |-> <<>>, old |-> FALSE,
      budget |-> MaxToolInput, faults |-> 0, verbose |-> FALSE,
      debug |-> FALSE] : n \in 1..Len(AllPkgs)}

\* runs over the whole package list
FullRuns ==
    {[pkgs |-> AllPkgs, licen |-> l, old |-> FALSE,
      budget |-> MaxFullInput - Len(l),
      faults |-> 0, verbose |-> FALSE, debug |-> FALSE] :
        l \in Texts(LicChars, MaxFullInput)}

\* runs in which commands fail
FailRuns ==
    {[pkgs |-> ps, licen |-> <<"x">>, old |-> o, budget |-> 0,
      faults |-> MaxFail, verbose |-> FALSE, debug |-> FALSE] :
        ps \in Prefixes, o \in BOOLEAN}

\* runs in which the calls of Cmd pass the flags
FlagRuns ==
    {[pkgs |-> ps, licen |-> <<"x">>, old |-> FALSE, budget |-> 1,
      faults |-> 1, verbose |-> v, debug |-> d] :
        ps \in Prefixes, v \in BOOLEAN, d \in BOOLEAN}

Start(s) ==
    /\ pkgs = s.pkgs
    /\ licen = s.licen
    /\ verbose = s.verbose
    /\ debug = s.debug
    /\ files = [f \in FileNames |->
                  IF s.old THEN [exists |-> TRUE, data |-> <<"old">>] ELSE Absent]
    /\ shadow = [f \in FileNames |-> Absent]
    /\ pc = "L67"
    /\ k = 0
    /\ phase = "call"
    /\ alive = {}
    /\ streams = <<>>
    /\ ret = [out |-> <<>>, err |-> <<>>]
    /\ console = <<>>
    /\ log = <<>>
    /\ access = <<>>
    /\ toolout = <<>>
    /\ before = <<>>
    /\ budget = s.budget
    /\ faults = s.faults
    /\ failed = {}

Init == \E s \in InputRuns \cup ToolRuns \cup FullRuns \cup FailRuns : Start(s)

InitFail == \E s \in FailRuns : Start(s)

InitCmd == \E s \in FlagRuns : Start(s)

\* the script as it is: every call of Cmd leaves verbose and debug unset
Spec == Init /\ [][Next]_vars

\* the script when commands fail; the interpreter keeps running and every
\* subprocess terminates
FairSpec == InitFail /\ [][Next]_vars /\ WF_vars(Next)

\* Cmd called with any flags
SpecCmd == InitCmd /\ [][Next]_vars

\* ================================================================== claims
\* The pages as they are meant to be: the templates with a double quote where
\* the Python literal has \\" and the license text as it is.
HeaderHtml(title) ==
    <<"<html>\n<head>\n<meta http-equiv=", DQ, "Content-Type", DQ,
      " content=", DQ, "text/html; charset=utf-8", DQ,
      ">\n<title>">> \o title \o
    <<"</title>\n<link type=", DQ, "text/css", DQ,
      " rel=", DQ, "stylesheet", DQ,
      " href=", DQ, "static/style.css", DQ,
      ">\n<script type=", DQ, "text/javascript", DQ,
      " src=", DQ, "static/godocs.js", DQ,
      "></script>\n<style type=", DQ, "text/css", DQ,
      "></style>\n</head>\n<body>\n<div id=", DQ, "page", DQ, ">">>

PkgHeaderHtml(pkg) ==
    HeaderHtml(<<"Gofem &ndash; package ", pkg[1]>>)
    \o <<"<h1>Gofem &ndash; <b>", pkg[1], "</b> &ndash; ", pkg[2], "</h1>", NL>>

FooterOpenHtml ==
    <<"</div><!-- page -->\n<div id=", DQ, "footer", DQ,
      ">\n<br /><br />\n<hr>\n<pre class=", DQ, "copyright", DQ, ">\n">>

FooterCloseHtml ==
    <<"</pre><!-- copyright -->\n</div><!-- footer -->\n</body>\n</html>", NL>>

FooterHtml == FooterOpenHtml \o licen \o FooterCloseHtml

ItemHtml(pkg) ==
    <<"<dd><a href=", DQ, "xx", pkg[1], ".html", DQ, "><b>", pkg[1], "</b>: ",
      pkg[2], "</a></dd>", NL>>

IndexOpenHtml ==
    HeaderHtml(<<"Gofem &ndash; Documentation">>)
    \o <<NL, "<h1>Gofem &ndash; Documentation</h1>", NL,
         "<h2 id=", DQ, "pkg-index", DQ, ">Index</h2>\n<div id=", DQ,
         "manual-nav", DQ, ">\n<dl>", NL>>

IndexCloseHtml == <<"</dl>\n</div><!-- manual-nav -->", NL>>

RECURSIVE Entries(_)
Entries(ps) == IF ps = <<>> THEN <<>> ELSE ItemHtml(Head(ps)) \o Entries(Tail(ps))

IsPrefix(a, b) == Len(a) <= Len(b) /\ SubSeq(b, 1, Len(a)) = a
IsSuffix(a, b) == Len(a) <= Len(b) /\ SubSeq(b, Len(b) - Len(a) + 1, Len(b)) = a
\* whether the placeholder starts at position p of t
IsOcc(t, p) == p >= 1 /\ p < Len(t) /\ t[p] = SRC /\ t[p + 1] = TGT
\* the positions of t where the placeholder starts
Occ(t) == {p \in 1..(Len(t) - 1) : IsOcc(t, p)}
Count(tok, t) == Cardinality({p \in 1..Len(t) : t[p] = tok})

FullRun == pc = "done" /\ failed = {}
Page(i) == files[fn(pkgs[i])]
OutFiles == {idxfn} \cup {fn(pkgs[i]) : i \in 1..Len(pkgs)}

\* C1 (as claimed): after a full run in which no command failed, every package
\* page is the package page header, then the standard output the tool gave for
\* that package, then one footer block with the license text.  Stated for the
\* runs whose license text and tool outputs hold no part of the placeholder,
\* where the rewrite step has nothing to rewrite.
C1_PackagePage ==
    (/\ FullRun
     /\ Count(SRC, licen) = 0
     /\ \A i \in 1..Len(pkgs) : Count(SRC, toolout[i]) = 0)
    => \A i \in 1..Len(pkgs) :
          /\ Page(i).exists
          /\ Page(i).data = PkgHeaderHtml(pkgs[i]) \o toolout[i] \o FooterHtml

\* C2: after a full run in which no command failed, the index file starts with
\* the opening written by lines 67-69, followed by one entry line per package
\* descriptor in list order, each <dd><a href="xx{id}.html"><b>{id}</b>:
\* {description}</a></dd>, followed by the closing </dl>; the file holds no
\* other entry.
C2_IndexEntries ==
    FullRun =>
        /\ files[idxfn].exists
        /\ IsPrefix(IndexOpenHtml \o Entries(pkgs) \o IndexCloseHtml,
                    files[idxfn].data)
        /\ Count("<dd><a href=", files[idxfn].data) = Len(pkgs)

C2_Witness ==
    /\ FullRun
    /\ Len(pkgs) >= 2
    /\ Count("<dd><a href=", files[idxfn].data) >= 2

\* C3: a full run in which no command failed leaves every output file as the
\* same commands leave it in an output directory that starts empty, whatever
\* the directory held before; and the first access to every output file is an
\* overwrite (looked at when the access is made: the newest entry of access).
C3_Idempotent ==
    /\ FullRun => \A f \in OutFiles : files[f] = shadow[f]
    /\ access /= <<>> =>
          ((\A i \in 1..(Len(access) - 1) :
                access[i].file /= access[Len(access)].file)
           => access[Len(access)].op = "overwrite")

C3_Witness ==
    /\ FullRun
    /\ Len(pkgs) = 2
    /\ toolout[1] /= <<>>
    /\ files[fn(AllPkgs[Len(AllPkgs)])].data = <<"old">>
    /\ \A f \in OutFiles : shadow[f].exists

\* C4: once sed has run on the page of package i, the page holds no
\* placeholder; where the placeholder stood before, the URL
\* https://github.com/cpmech/gofem/blob/master/<id of package i> stands, and
\* every other token of the page is as it was.  (Looked at when the sed
\* subprocess has terminated, and again for every page when the run has ended.)
C4_Substitution ==
    \A i \in DOMAIN before :
        (pc = "done" \/ (pc = "L79" /\ k = i /\ alive = {})) =>
        LET b == before[i]
            a == Page(i).data
        IN  /\ Occ(a) = {}
            /\ Len(a) = Len(b)
            /\ \A p \in 1..Len(b) :
                  IF IsOcc(b, p) THEN a[p] = UrlBase
                  ELSE IF IsOcc(b, p - 1) THEN a[p] = pkgs[i][1]
                  ELSE a[p] = b[p]
            /\ Count(UrlBase, a) = Count(UrlBase, b) + Cardinality(Occ(b))

C4_Witness ==
    \E i \in DOMAIN before :
        /\ Cardinality(Occ(before[i])) = 2
        /\ Count(UrlBase, Page(i).data) = 2

\* C5 (as claimed): the footer appended to a package page (line 75) and to
\* the index file (line 82) holds the license text character for character.
C5_LicenseVerbatim ==
    /\ (pc = "L76" /\ phase = "call" /\ failed = {})
       => IsSuffix(FooterHtml, Page(k).data)
    /\ FullRun => IsSuffix(FooterHtml, files[idxfn].data)

\* the Cmd calls of a whole run, in order
Schedule ==
    <<(<<"L67", 0>>), (<<"L68", 0>>), (<<"L69", 0>>)>>
    \o [j \in 1..(5 * Len(pkgs)) |->
          <<(<<"L73", "L74", "L75", "L76", "L79">>)[((j - 1) % 5) + 1],
            ((j - 1) \div 5) + 1>>]
    \o <<(<<"L81", 0>>), (<<"L82", 0>>)>>

\* C6: whichever commands fail, the Cmd calls issued so far are always the
\* first calls of the fixed sequence (index opening; per package in list order
\* header, tool, footer, index entry, substitution; index closing and footer),
\* each issued once, and the run reaches its end having issued them all.
C6_FixedSequence ==
    /\ [](IsPrefix(log, Schedule) /\ (pc = "done" => log = Schedule))
    /\ <>(pc = "done")

C6_Witness ==
    /\ pc = "done"
    /\ Cardinality(failed) = 2
    /\ Len(pkgs) = 2
    /\ log = Schedule

\* C7 (as claimed): with debug set, Cmd prints the command, runs it and
\* returns; no call ends in an error.
C7_DebugRuns == debug => pc /= "NameError"

\* C8 (as claimed): with an empty package list, a full run in which no command
\* failed leaves an index file made of the opening (page header, headings,
\* <dl>), the closing </dl> right after it and a footer block, and accesses no
\* package file.
C8_EmptyList ==
    (FullRun /\ pkgs = <<>>) =>
        /\ \A j \in DOMAIN access : access[j].file = idxfn
        /\ \E n \in 0..MaxInput :
              \E l \in [1..n -> LicChars] :
                 files[idxfn].data =
                    IndexOpenHtml \o IndexCloseHtml \o FooterOpenHtml \o l
                    \o FooterCloseHtml

\* C9: at most one subprocess is alive at any time, it is the one of the Cmd
\* call in progress, and between two calls of Cmd no subprocess is alive and
\* no stream is left unread.
C9_OneAtATime ==
    /\ Cardinality(alive) <= 1
    /\ alive \subseteq {<<pc, k>>}
    /\ phase = "call" => (alive = {} /\ DOMAIN streams = {})

C9_Witness ==
    /\ alive = {<<"L79", 1>>}
    /\ \E j \in DOMAIN access : access[j].line = "L75" /\ access[j].k = 1

\* the write accesses to the file of access j that come before it
WritesBefore(j) ==
    {i \in 1..(j - 1) :
        access[i].file = access[j].file /\ access[i].op /= "edit"}

\* C10 (as claimed): the substitution on a package page is preceded by exactly
\* one write step to that file.
C10_OneWriteBeforeSed ==
    \A j \in DOMAIN access :
        access[j].op = "edit" => Cardinality(WritesBefore(j)) = 1

\* C10 (amended): the substitution on a package page is preceded by exactly
\* three write steps to that file, the header overwrite, the tool append and
\* the footer append of the same iteration, in that order; no step accesses the
\* page after its substitution; the substitution of package i accesses
\* xx<i>.html only, never the index file.
C10_WritesBeforeSed ==
    \A j \in DOMAIN access :
        access[j].op = "edit" =>
            /\ j >= 5
            /\ WritesBefore(j) = {j - 4, j - 3, j - 2}
            /\ <<access[j - 4].line, access[j - 3].line, access[j - 2].line>>
                   = <<"L73", "L74", "L75">>
            /\ <<access[j - 4].op, access[j - 3].op, access[j - 2].op>>
                   = <<"overwrite", "append", "append">>
            /\ \A i \in {j - 4, j - 3, j - 2} : access[i].k = access[j].k
            /\ \A i \in (j + 1)..Len(access) : access[i].file /= access[j].file
            /\ access[j].file = fn(pkgs[access[j].k])
            /\ access[j].file /= idxfn

C10_Witness ==
    \E j \in DOMAIN access :
        /\ access[j].op = "edit"
        /\ access[j].k = 1
        /\ Len(access) > j + 5

=============================================================================
